---- MODULE Spec2Model ----
(***************************************************************************)
(* Complaint intake (netlify/functions/submitComplaint.js) and the status  *)
(* update / delete / read handlers (netlify/functions/updateComplaint.js,  *)
(* the status variant of updateComplaint and getComplaints), as a state    *)
(* machine.                                                                *)
(*                                                                         *)
(* A JavaScript string is a sequence of one-character strings; NUL stands  *)
(* for U+0000 and SP for a whitespace character.  Any other JavaScript     *)
(* value is a tagged record (Undef, Null, Num, Str(s), Obj(props)).        *)
(***************************************************************************)
EXTENDS Integers, Sequences, FiniteSets, TLC

VARIABLES
    FUNCTION_SECRET,  \* process.env.FUNCTION_SECRET || ''
    MONGODB_DB,       \* process.env.MONGODB_DB || 'univoice'
    now,              \* the wall clock, in milliseconds (Date.now())
    rateMap,          \* the limiter's Map: caller key -> entry, or NoEntry
    cachedClient,     \* TRUE once connectToDatabase has cached a client
    db,               \* database name -> the "complaints" collection (a set of documents)
    nextOid,          \* the next ObjectId the driver hands out
    proc,             \* the invocations of the submit handler
    log,              \* history: the calls that reached isRateLimited, in order
    adminResp,        \* the last response of an update or delete handler
    client,           \* handler -> the state of its module-level MongoClient
    inv,              \* the invocations of the handlers that share such a client
    sInput,           \* sanitizeString harness: the input value
    sMaxLen,          \* sanitizeString harness: the maxLen argument
    sStage,           \* sanitizeString harness: how many times it has been applied
    sOnce,            \* sanitizeString harness: sanitizeString(input, maxLen)
    sTwice            \* sanitizeString harness: sanitizeString(sOnce, maxLen)

vars == <<FUNCTION_SECRET, MONGODB_DB, now, rateMap, cachedClient, db, nextOid,
          proc, log, adminResp, client, inv, sInput, sMaxLen, sStage, sOnce, sTwice>>

---------------------------------------------------------------------------
(* JavaScript values *)

NUL == "NUL"
SP == " "

Undef == [type |-> "undefined"]
Null == [type |-> "null"]
Num == [type |-> "number"]
Str(s) == [type |-> "string", val |-> s]
Obj(props) == [type |-> "object", props |-> props]

\* obj.key: undefined for a missing key and for a primitive that is not null.
Get(v, key) ==
    IF v.type = "object" /\ key \in DOMAIN v.props THEN v.props[key] ELSE Undef

\* n copies of the character c
Rep(c, n) == [i \in 1..n |-> c]

---------------------------------------------------------------------------
(* sanitizeString *)

IsSpace(c) == c = SP

\* validator.trim(input): /^\s+|\s+$/g removed; NUL is not matched by \s.
trim(s) ==
    LET n == Len(s)
        lead == CHOOSE k \in 0..n :
                    /\ \A i \in 1..k : IsSpace(s[i])
                    /\ (k = n \/ ~IsSpace(s[k + 1]))
        tail == CHOOSE k \in 0..n :
                    /\ \A i \in (n - k + 1)..n : IsSpace(s[i])
                    /\ (k = n \/ ~IsSpace(s[n - k]))
    IN  IF lead = n THEN <<>> ELSE SubSeq(s, lead + 1, n - tail)

NotNul(c) == c # NUL

\* s.replace(/\0/g, '')
removeNul(s) == SelectSeq(s, NotNul)

\* truncate without the slice
truncateNever(s, maxLen) == s

\* if (s.length > maxLen) s = s.slice(0, maxLen)
truncate(s, maxLen) == IF Len(s) > maxLen THEN SubSeq(s, 1, maxLen) ELSE s

sanitizeString(input, maxLen) ==
    IF input.type # "string" THEN <<>>
    ELSE truncate(removeNul(trim(input.val)), maxLen)

---------------------------------------------------------------------------
(* validator.isEmail, default options, on the characters the model uses *)

Letters == {"a", "b"}

\* a dot-atom: letters separated by single dots, no dot first or last
IsDotAtom(s) ==
    /\ Len(s) > 0
    /\ \A i \in 1..Len(s) : s[i] \in Letters \/ s[i] = "."
    /\ s[1] # "." /\ s[Len(s)] # "."
    /\ \A i \in 1..(Len(s) - 1) : ~(s[i] = "." /\ s[i + 1] = ".")

\* user@domain: one "@", the user a dot-atom of at most 64 characters, the
\* domain a fully qualified name whose last label has two letters or more.
isEmail(s) ==
    LET ats == {i \in 1..Len(s) : s[i] = "@"}
    IN  /\ Cardinality(ats) = 1
        /\ LET at == CHOOSE i \in ats : TRUE
               user == SubSeq(s, 1, at - 1)
               domain == SubSeq(s, at + 1, Len(s))
               dots == {i \in 1..Len(domain) : domain[i] = "."}
           IN  /\ IsDotAtom(user) /\ Len(user) <= 64
               /\ IsDotAtom(domain)
               /\ dots # {}
               /\ \A i \in (Len(domain) - 1)..Len(domain) : i \in 1..Len(domain) /\ i \notin dots

---------------------------------------------------------------------------
(* createComplaintId *)

Digits36 ==
    <<"0", "1", "2", "3", "4", "5", "6", "7", "8", "9", "a", "b", "c", "d", "e",
      "f", "g", "h", "i", "j", "k", "l", "m", "n", "o", "p", "q", "r", "s", "t",
      "u", "v", "w", "x", "y", "z">>

RECURSIVE toString36(_)
\* Number.prototype.toString(36) of a natural number
toString36(n) ==
    IF n < 36 THEN <<Digits36[n + 1]>>
    ELSE Append(toString36(n \div 36), Digits36[(n % 36) + 1])

HexDigits == <<"0", "1", "2", "3", "4", "5", "6", "7", "8", "9", "a", "b", "c", "d", "e", "f">>

\* uuidv4().split('-')[0]: the eight hexadecimal digits of the uuid's first
\* group, here the digits of the 32-bit number r.
uuidHead(r) ==
    [i \in 1..8 |-> HexDigits[((r \div (16 ^ (8 - i))) % 16) + 1]]

toUpperCaseChar(c) ==
    CASE c = "a" -> "A" [] c = "b" -> "B" [] c = "c" -> "C"
      [] c = "d" -> "D" [] c = "e" -> "E" [] c = "f" -> "F"
      [] OTHER -> c

toUpperCase(s) == [i \in 1..Len(s) |-> toUpperCaseChar(s[i])]

\* `COMP-${ts}-${rnd.toUpperCase()}` with ts = Date.now().toString(36)
createComplaintId(t, r) ==
    <<"C", "O", "M", "P", "-">> \o toString36(t) \o <<"-">> \o toUpperCase(uuidHead(r))

---------------------------------------------------------------------------
(* isRateLimited *)

RATE_LIMIT_WINDOW_MS == 60 * 1000
RATE_LIMIT_MAX == 6

NoEntry == [count |-> -1, first |-> -1]

\* The entry isRateLimited works on: rateMap.get(ip) || { count: 0, first: now }
entryOf(map, ip, t) ==
    IF map[ip] = NoEntry THEN [count |-> 0, first |-> t] ELSE map[ip]

\* the window test with >= for >
windowExpiredAtEdge(entry, t) == t - entry.first >= RATE_LIMIT_WINDOW_MS

\* The window test of line 62.
windowExpired(entry, t) == t - entry.first > RATE_LIMIT_WINDOW_MS

\* The entry isRateLimited stores back (rateMap.set) for a call at time t.
entryAfter(entry, t) ==
    IF windowExpired(entry, t) THEN [count |-> 1, first |-> t]
    ELSE [count |-> entry.count + 1, first |-> entry.first]

\* The ceiling test of line 71 on the stored entry.
overCeiling(entry) == entry.count > RATE_LIMIT_MAX

\* isRateLimited comparing the count it read, before the increment
isRateLimitedCompareFirst(map, ip, t) ==
    LET entry == entryOf(map, ip, t)
        after == entryAfter(entry, t)
    IN  [map |-> [map EXCEPT ![ip] = after],
         limited |-> IF windowExpired(entry, t) THEN FALSE ELSE overCeiling(entry)]

\* isRateLimited(ip) called at time t on the Map `map`: the Map afterwards
\* and the value returned.
isRateLimited(map, ip, t) ==
    LET entry == entryOf(map, ip, t)
        after == entryAfter(entry, t)
    IN  [map |-> [map EXCEPT ![ip] = after],
         limited |-> IF windowExpired(entry, t) THEN FALSE ELSE overCeiling(after)]

---------------------------------------------------------------------------
(* exports.handler of submitComplaint.js: the part that runs before the     *)
(* first await                                                              *)

\* a || b on strings: the empty string (like a missing header) is falsy
Or(a, b) == IF a # "" THEN a ELSE b

EmptyProps == [k \in {} |-> Undef]

\* event.headers['x-function-secret'] || event.headers['X-Function-Secret'] || ''
providedSecret(event) ==
    Or(event.headers["x-function-secret"], Or(event.headers["X-Function-Secret"], ""))

\* The caller key of line 114.
callerIp(event) ==
    Or(event.headers["x-nf-client-connection-ip"],
       Or(event.headers["x-forwarded-for"], Or(event.sourceIp, "unknown")))

\* The secret gate of lines 102-111 lets the request through.
secretOk(secret, event) == secret = "" \/ providedSecret(event) = secret

\* The request gets as far as the call of isRateLimited (line 115).
reachesLimiter(secret, event) ==
    event.httpMethod = "POST" /\ secretOk(secret, event)

\* JSON.parse(event.body || '{}') throws
parseFails(body) == body.kind = "malformed"

\* JSON.parse(event.body || '{}') when it does not throw
parse(body) == IF body.kind = "absent" THEN Obj(EmptyProps) ELSE body.value

Response(code, error) == [statusCode |-> code, error |-> error]
NoResp == Response(-1, "")
\* The handler's promise rejects: an exception no try block catches.
Threw == Response(0, "TypeError")
NoDoc == [complaintId |-> <<>>]

\* payload.reporter && typeof payload.reporter === 'object'
hasReporter(payload) == Get(payload, "reporter").type = "object"

\* The reporter object of lines 153-156: only the non-empty sanitized fields.
buildReporter(rName, rEmail, rUsername) ==
    LET keys == (IF rName # <<>> THEN {"name"} ELSE {})
                \cup (IF rEmail # <<>> THEN {"email"} ELSE {})
                \cup (IF rUsername # <<>> THEN {"username"} ELSE {})
    IN  [k \in keys |-> CASE k = "name" -> rName
                          [] k = "email" -> rEmail
                          [] OTHER -> rUsername]

\* ...(reporter ? { reporter } : {}): an object, also an empty one, is truthy.
reporterPart(reporter) ==
    IF reporter = Null THEN EmptyProps ELSE [reporter |-> reporter]

\* complaintDoc of lines 185-195.
complaintDoc(complaintId, department, program, title, details, t, reporter) ==
    [complaintId |-> complaintId, department |-> department, program |-> program,
     title |-> title, details |-> details, status |-> "pending",
     createdAt |-> t, updatedAt |-> t] @@ reporterPart(reporter)

\* The email test of line 146.
invalidEmail(rEmail) == rEmail # <<>> /\ ~isEmail(rEmail)

\* the required-field test without details
missingRequiredNoDetails(department, program, title, details) ==
    department = <<>> \/ program = <<>> \/ title = <<>>

\* The required-field test of line 159.
missingRequired(department, program, title, details) ==
    department = <<>> \/ program = <<>> \/ title = <<>> \/ details = <<>>

\* The title floor of line 167.
titleTooShort(title) == Len(title) < 5

\* the details floor left out
detailsFloorSkipped(details) == FALSE

\* The details floor of line 174.
detailsTooShort(details) == Len(details) < 10

\* validate with the required-field test moved before the reporter block
validateRequiredFirst(payload, complaintId, t) ==
    LET department == sanitizeString(Get(payload, "department"), 100)
        program == sanitizeString(Get(payload, "program"), 100)
        title == sanitizeString(Get(payload, "title"), 200)
        details == sanitizeString(Get(payload, "details"), 4000)
        rep == Get(payload, "reporter")
        rName == sanitizeString(Get(rep, "name"), 100)
        rEmail == sanitizeString(Get(rep, "email"), 254)
        rUsername == sanitizeString(Get(rep, "username"), 100)
        reporter == IF hasReporter(payload)
                    THEN buildReporter(rName, rEmail, rUsername) ELSE Null
    IN  IF missingRequired(department, program, title, details)
          THEN [resp |-> Response(400, "Missing required fields"), doc |-> NoDoc]
        ELSE IF hasReporter(payload) /\ invalidEmail(rEmail)
          THEN [resp |-> Response(400, "Invalid reporter email"), doc |-> NoDoc]
        ELSE IF titleTooShort(title)
          THEN [resp |-> Response(400, "Complaint title too short"), doc |-> NoDoc]
        ELSE IF detailsTooShort(details)
          THEN [resp |-> Response(400, "Complaint details too short"), doc |-> NoDoc]
        ELSE [resp |-> NoResp,
              doc |-> complaintDoc(complaintId, department, program, title,
                                   details, t, reporter)]

\* Lines 134-195 on a payload that is not null: a response, or the document
\* to insert.
validate(payload, complaintId, t) ==
    LET department == sanitizeString(Get(payload, "department"), 100)
        program == sanitizeString(Get(payload, "program"), 100)
        title == sanitizeString(Get(payload, "title"), 200)
        details == sanitizeString(Get(payload, "details"), 4000)
        rep == Get(payload, "reporter")
        rName == sanitizeString(Get(rep, "name"), 100)
        rEmail == sanitizeString(Get(rep, "email"), 254)
        rUsername == sanitizeString(Get(rep, "username"), 100)
        reporter == IF hasReporter(payload)
                    THEN buildReporter(rName, rEmail, rUsername) ELSE Null
    IN  IF hasReporter(payload) /\ invalidEmail(rEmail)
          THEN [resp |-> Response(400, "Invalid reporter email"), doc |-> NoDoc]
        ELSE IF missingRequired(department, program, title, details)
          THEN [resp |-> Response(400, "Missing required fields"), doc |-> NoDoc]
        ELSE IF titleTooShort(title)
          THEN [resp |-> Response(400, "Complaint title too short"), doc |-> NoDoc]
        ELSE IF detailsTooShort(details)
          THEN [resp |-> Response(400, "Complaint details too short"), doc |-> NoDoc]
        ELSE [resp |-> NoResp,
              doc |-> complaintDoc(complaintId, department, program, title,
                                   details, t, reporter)]

\* Lines 85-195: what the handler has decided when it returns or reaches its
\* first await, given what isRateLimited returned (if it was called).
evaluate(secret, event, limited, complaintId, t) ==
    IF event.httpMethod = "OPTIONS" THEN [resp |-> Response(204, ""), doc |-> NoDoc]
    ELSE IF event.httpMethod # "POST"
      THEN [resp |-> Response(405, "Method not allowed"), doc |-> NoDoc]
    ELSE IF ~secretOk(secret, event)
      THEN [resp |-> Response(401, "Unauthorized"), doc |-> NoDoc]
    ELSE IF limited
      THEN [resp |-> Response(429, "Too many submissions. Try again later."), doc |-> NoDoc]
    ELSE IF parseFails(event.body)
      THEN [resp |-> Response(400, "Invalid JSON"), doc |-> NoDoc]
    ELSE IF parse(event.body) = Null
      THEN [resp |-> Threw, doc |-> NoDoc]
    ELSE validate(parse(event.body), complaintId, t)

---------------------------------------------------------------------------
(* Bounds and inputs *)

MaxProcs == 2        \* concurrent invocations of the submit handler
MaxCalls == 3        \* calls of isRateLimited explored by Spec
MaxRateCalls == 8    \* calls of isRateLimited explored by SpecRate and SpecBurst
MaxDocs == 2         \* documents ever inserted
MaxUuid == 2         \* distinct values of the uuid's first group
MaxWindows == 1      \* the clock runs over this many whole windows
MaxStrLen == 3       \* sanitizeString harness: length of the input string
MaxLenArg == 3       \* sanitizeString harness: the maxLen argument
MaxInvocations == 2  \* concurrent invocations of the handlers that share a client

Procs == 1..MaxProcs
Oids == 1..MaxDocs
Uuids == 0..(MaxUuid - 1)
\* The clock's values: the start of a window and one millisecond later.
Times == {k * RATE_LIMIT_WINDOW_MS + j : k \in 0..MaxWindows, j \in {0, 1}}
DbNames == {"univoice", "complaintsDB"}
Secrets == {"", "s3cret"}
Ips == {"10.0.0.1", "unknown"}

Headers(secretLower, secretUpper, nfIp, fwdFor) ==
    [h \in {"x-function-secret", "X-Function-Secret",
            "x-nf-client-connection-ip", "x-forwarded-for"} |->
        CASE h = "x-function-secret" -> secretLower
          [] h = "X-Function-Secret" -> secretUpper
          [] h = "x-nf-client-connection-ip" -> nfIp
          [] OTHER -> fwdFor]

Event(method, headers, sourceIp, body) ==
    [httpMethod |-> method, headers |-> headers, sourceIp |-> sourceIp, body |-> body]

Absent == [kind |-> "absent"]
Malformed == [kind |-> "malformed"]
Json(v) == [kind |-> "json", value |-> v]

Payload(department, program, title, details, reporter) ==
    Obj([department |-> department, program |-> program,
         title |-> title, details |-> details, reporter |-> reporter])

GoodEmail == Str(<<"a", "@", "b", ".", "a", "b">>)
BadEmail == Str(<<"a", "@", "b">>)
\* { department: "a", program: "ab", title: "aaaaa", details: "bbbbbbbbbb" }
\* with the given reporter
GoodPayload(reporter) ==
    Payload(Str(<<"a">>), Str(<<"a", "b">>), Str(Rep("a", 5)), Str(Rep("b", 10)), reporter)

\* A POST that carries the secret, from 10.0.0.1.
Post(body) == Event("POST", Headers("s3cret", "", "10.0.0.1", ""), "", body)

\* reporter values: missing, null, a string, and objects
Reporters ==
    {Undef, Null, Str(<<"a">>), Obj(EmptyProps),
     Obj([name |-> Str(<<SP, NUL>>), email |-> Num]),
     Obj([name |-> Str(<<"a">>), ip |-> Str(<<"b">>)]),
     Obj([email |-> GoodEmail, username |-> Str(<<"b">>)]),
     Obj([email |-> Str(<<SP>>), username |-> Str(<<"a">>)]),
     Obj([email |-> BadEmail]),
     Obj([name |-> Str(<<"a">>), email |-> Str(<<"a", "@", "b", ".", "a">>)])}

Departments == {Undef, Num, Str(<<>>), Str(<<SP, NUL, SP>>), Str(<<"a">>)}
Programs == {Undef, Str(<<"a", "b">>)}
Titles ==
    {Undef, Str(<<SP, SP>>), Str(Rep("a", 4)), Str(Rep("a", 5)),
     Str(<<SP, "a", "a", "a", "a", SP>>)}
Details == {Str(<<NUL>>), Str(Rep("b", 9)), Str(Rep("b", 10))}

\* values longer than the fields' maximum lengths, and at them
LongDepartments == {Str(<<"a">>), Str(Rep("a", 100)), Str(Rep("a", 101))}
LongPrograms == {Str(<<"a", "b">>), Str(<<SP>> \o Rep("b", 101))}
LongTitles == {Str(Rep("a", 5)), Str(Rep("a", 200)), Str(Rep("a", 201))}
LongDetails == {Str(Rep("b", 10)), Str(Rep("b", 4001))}
LongReporters == {Undef, Obj([name |-> Str(Rep("a", 101)), ip |-> Str(<<"a">>)])}

\* The requests SpecSubmit explores.
SubmitEvents ==
    {Event(m, Headers("", "", "10.0.0.1", ""), "", Absent) : m \in {"OPTIONS", "GET"}}
    \cup {Event("POST", Headers(s, u, "", ""), "", Json(GoodPayload(Undef))) :
            s \in {"", "wrong"}, u \in {"", "s3cret"}}
    \cup {Event("POST", Headers("s3cret", "", "", f), i, Json(GoodPayload(Undef))) :
            f \in {"", "10.0.0.1"}, i \in {"", "10.0.0.1"}}
    \cup {Post(b) : b \in {Absent, Malformed, Json(Null), Json(Num), Json(Str(<<"a">>))}}
    \cup {Post(Json(Payload(d, p, t, x, r))) :
            d \in Departments, p \in Programs, t \in Titles, x \in Details,
            r \in Reporters}
    \cup {Post(Json(Payload(d, p, t, x, r))) :
            d \in LongDepartments, p \in LongPrograms, t \in LongTitles,
            x \in LongDetails, r \in LongReporters}

\* The requests Spec explores: accepted ones, with and without a reporter,
\* and rejected ones.
Events ==
    {Post(Json(GoodPayload(r))) : r \in {Undef, Obj(EmptyProps)}}
    \cup {Post(Malformed), Event("GET", Headers("", "", "", ""), "", Absent)}

\* The requests SpecRate explores: one caller key, rejected after the limiter.
RateEvents == {Post(Malformed), Event("OPTIONS", Headers("", "", "10.0.0.1", ""), "", Absent)}

\* The requests SpecBurst explores: one caller key, accepted (and suspended at
\* the storage calls) or rejected after the limiter.
BurstEvents == {Post(Json(GoodPayload(Undef))), Post(Malformed)}

---------------------------------------------------------------------------
(* State *)

\* The four handlers that each hold one MongoClient at module level.
Handlers == {"updateComplaint", "deleteComplaint", "getComplaintById", "getComplaints"}
Invocations == 1..MaxInvocations

\* What JSON.parse(event.body) yields for these handlers: parses is FALSE when
\* it throws; id 0 is no ObjectId; an empty complaintId is falsy.
Request(parses, id, action, complaintId) ==
    [parses |-> parses, id |-> id, action |-> action, complaintId |-> complaintId]

NoInvocation ==
    [pc |-> "idle", handler |-> "", req |-> Request(FALSE, 0, "", <<>>),
     resp |-> NoResp, ranOn |-> "none"]

Idle ==
    [pc |-> "idle", event |-> Event("", Headers("", "", "", ""), "", Absent),
     limiter |-> "skipped", doc |-> NoDoc, resp |-> NoResp, storage |-> <<>>]

InitHarness ==
    /\ sInput = Undef /\ sMaxLen = 0 /\ sStage = 0 /\ sOnce = <<>> /\ sTwice = <<>>

InitServer ==
    /\ FUNCTION_SECRET \in Secrets
    /\ MONGODB_DB \in DbNames
    /\ now = 0
    /\ rateMap = [ip \in Ips |-> NoEntry]
    /\ cachedClient = FALSE
    /\ db = [n \in DbNames |-> {}]
    /\ nextOid = 1
    /\ proc = [p \in Procs |-> Idle]
    /\ log = <<>>
    /\ adminResp = NoResp
    /\ client = [h \in Handlers |-> "new"]
    /\ inv = [i \in Invocations |-> NoInvocation]

Init == InitServer /\ InitHarness

harnessVars == <<sInput, sMaxLen, sStage, sOnce, sTwice>>
configVars == <<FUNCTION_SECRET, MONGODB_DB>>
clientVars == <<client, inv>>

\* invocations that have built a document and not yet inserted it
InFlight == {p \in Procs : proc[p].pc \in {"connect", "insert"}}

---------------------------------------------------------------------------
(* Actions *)

\* The clock advances.
Tick ==
    /\ \E t \in Times : t > now /\ now' = t
    /\ UNCHANGED <<configVars, rateMap, cachedClient, db, nextOid, proc, log, adminResp, harnessVars, clientVars>>

\* exports.handler of submitComplaint.js is invoked with `event` and runs to
\* its return or to its first await; r is what uuidv4 draws.
Submit(p, event, r, maxCalls) ==
    LET reach == reachesLimiter(FUNCTION_SECRET, event)
        ip == callerIp(event)
        rl == isRateLimited(rateMap, ip, now)
        res == evaluate(FUNCTION_SECRET, event, reach /\ rl.limited,
                        createComplaintId(now, r), now)
    IN  /\ proc[p].pc = "idle"
        /\ reach => Len(log) < maxCalls
        /\ res.doc # NoDoc => nextOid + Cardinality(InFlight) <= MaxDocs
        /\ rateMap' = IF reach THEN rl.map ELSE rateMap
        /\ log' = IF reach
                  THEN Append(log, [ip |-> ip, t |-> now, limited |-> rl.limited])
                  ELSE log
        /\ proc' = [proc EXCEPT ![p] =
                      [pc |-> IF res.doc # NoDoc THEN "connect" ELSE "done",
                       event |-> event,
                       limiter |-> IF ~reach THEN "skipped"
                                   ELSE IF rl.limited THEN "limited" ELSE "passed",
                       doc |-> res.doc, resp |-> res.resp, storage |-> <<>>]]
        /\ UNCHANGED <<configVars, now, cachedClient, db, nextOid, adminResp, harnessVars, clientVars>>

\* await connectToDatabase() returns: the cached client, or a new one that
\* connected and is now cached.
ConnectOk(p) ==
    /\ proc[p].pc = "connect"
    /\ cachedClient' = TRUE
    /\ proc' = [proc EXCEPT ![p].pc = "insert",
                            ![p].storage = Append(@, "connectToDatabase")]
    /\ UNCHANGED <<configVars, now, rateMap, db, nextOid, log, adminResp, harnessVars, clientVars>>

\* await connectToDatabase() throws (client.connect() failed): the catch
\* block answers 500.
ConnectFail(p) ==
    /\ proc[p].pc = "connect"
    /\ ~cachedClient
    /\ proc' = [proc EXCEPT ![p].pc = "done",
                            ![p].storage = Append(@, "connectToDatabase"),
                            ![p].resp = Response(500, "Internal server error")]
    /\ UNCHANGED <<configVars, now, rateMap, cachedClient, db, nextOid, log, adminResp, harnessVars, clientVars>>

\* await coll.insertOne(complaintDoc) returns: the document is stored under a
\* fresh _id and the handler answers 201.
InsertOk(p) ==
    /\ proc[p].pc = "insert"
    /\ db' = [db EXCEPT ![MONGODB_DB] = @ \cup {("_id" :> nextOid) @@ proc[p].doc}]
    /\ nextOid' = nextOid + 1
    /\ proc' = [proc EXCEPT ![p].pc = "done",
                            ![p].storage = Append(@, "insertOne"),
                            ![p].resp = Response(201, "")]
    /\ UNCHANGED <<configVars, now, rateMap, cachedClient, log, adminResp, harnessVars, clientVars>>

\* await coll.insertOne(complaintDoc) throws: the catch block answers 500.
InsertFail(p) ==
    /\ proc[p].pc = "insert"
    /\ proc' = [proc EXCEPT ![p].pc = "done",
                            ![p].storage = Append(@, "insertOne"),
                            ![p].resp = Response(500, "Internal server error")]
    /\ UNCHANGED <<configVars, now, rateMap, cachedClient, db, nextOid, log, adminResp, harnessVars, clientVars>>

\* The invocation is over: its response has been sent.
Return(p) ==
    /\ proc[p].pc = "done"
    /\ proc' = [proc EXCEPT ![p] = Idle]
    /\ UNCHANGED <<configVars, now, rateMap, cachedClient, db, nextOid, log, adminResp, harnessVars, clientVars>>

---------------------------------------------------------------------------
(* updateComplaint (both variants) and deleteComplaint *)

\* Lines 10-12 of updateComplaint.js: the status an action stands for.
statusOfAction(action) ==
    CASE action = "approve" -> "approved"
      [] action = "reject" -> "rejected"
      [] OTHER -> action

\* updateOne({ _id: new ObjectId(id) }, { $set: { status } }) on a collection
updateOne(coll, id, status) ==
    {IF d["_id"] = id THEN [d EXCEPT !["status"] = status] ELSE d : d \in coll}

\* deleteOne({ _id: new ObjectId(id) }) on a collection
deleteOne(coll, id) == {d \in coll : d["_id"] # id}

\* new ObjectId(id) does not throw: 0 stands for an id that is no ObjectId
validObjectId(id) == id # 0

Actions == {"approve", "reject", "spam"}
Statuses == {"approved", "pending"}
UpdateIds == Oids \cup {0}

\* exports.handler of updateComplaint.js (action variant) on { id, action };
\* ok: the connection and the update succeed.
UpdateAction(id, action, ok) ==
    /\ IF ok /\ validObjectId(id)
       THEN /\ db' = [db EXCEPT !["complaintsDB"] = updateOne(@, id, statusOfAction(action))]
            /\ adminResp' = Response(200, "")
       ELSE /\ db' = db
            /\ adminResp' = Response(500, "")
    /\ UNCHANGED <<configVars, now, rateMap, cachedClient, nextOid, proc, log, harnessVars, clientVars>>

\* exports.handler of the status variant of updateComplaint on { id, status }
UpdateStatus(id, status, ok) ==
    /\ IF ok /\ validObjectId(id)
       THEN /\ db' = [db EXCEPT !["complaintsDB"] = updateOne(@, id, status)]
            /\ adminResp' = Response(200, "")
       ELSE /\ db' = db
            /\ adminResp' = Response(500, "")
    /\ UNCHANGED <<configVars, now, rateMap, cachedClient, nextOid, proc, log, harnessVars, clientVars>>

\* exports.handler of deleteComplaint on { id }
Delete(id, ok) ==
    /\ IF ok /\ validObjectId(id)
       THEN /\ db' = [db EXCEPT !["complaintsDB"] = deleteOne(@, id)]
            /\ adminResp' = Response(200, "")
       ELSE /\ db' = db
            /\ adminResp' = Response(500, "")
    /\ UNCHANGED <<configVars, now, rateMap, cachedClient, nextOid, proc, log, harnessVars, clientVars>>

---------------------------------------------------------------------------
(* updateComplaint, deleteComplaint, getComplaintById and getComplaints,   *)
(* await by await.  Each file holds one MongoClient at module level; every *)
(* invocation of its handler connects that client, runs one operation on   *)
(* it and closes it in its finally block.                                  *)

\* The handlers that read event.body, and those that build an ObjectId.
ParsesBody == {"updateComplaint", "deleteComplaint", "getComplaintById"}
UsesObjectId == {"updateComplaint", "deleteComplaint"}

\* findOne({ complaintId }) on a collection finds a document
findOne(coll, complaintId) == \E d \in coll : d["complaintId"] = complaintId

\* The response the handler's try block builds before it reaches
\* client.connect(), or NoResp when it reaches it.
beforeConnect(h, req) ==
    IF h \in ParsesBody /\ ~req.parses THEN Response(500, "SyntaxError")
    ELSE IF h = "getComplaintById" /\ req.complaintId = <<>>
         THEN Response(400, "complaintId is required")
    ELSE NoResp

\* The handler h is invoked: it runs to await client.connect(), or through
\* its return (or catch) block to await client.close().
Invoke(i, h, req) ==
    /\ inv[i].pc = "idle"
    /\ inv' = [inv EXCEPT ![i] =
                 [pc |-> IF beforeConnect(h, req) = NoResp THEN "connect" ELSE "finally",
                  handler |-> h, req |-> req, resp |-> beforeConnect(h, req),
                  ranOn |-> "none"]]
    /\ UNCHANGED <<configVars, now, rateMap, cachedClient, db, nextOid, proc, log,
                   adminResp, client, harnessVars>>

\* await client.connect() returns: the handler's client is connected.  The
\* handler goes on to issue its operation; new ObjectId(id) throws on an id
\* that is no ObjectId, and the catch block answers 500.
ClientConnectOk(i) ==
    LET h == inv[i].handler
    IN  /\ inv[i].pc = "connect"
        /\ client' = [client EXCEPT ![h] = "connected"]
        /\ inv' = IF h \in UsesObjectId /\ ~validObjectId(inv[i].req.id)
                  THEN [inv EXCEPT ![i].pc = "finally",
                                   ![i].resp = Response(500, "BSONError")]
                  ELSE [inv EXCEPT ![i].pc = "query"]
        /\ UNCHANGED <<configVars, now, rateMap, cachedClient, db, nextOid, proc, log,
                       adminResp, harnessVars>>

\* await client.connect() throws: the server cannot be reached.
ClientConnectFail(i) ==
    /\ inv[i].pc = "connect"
    /\ client[inv[i].handler] # "connected"
    /\ inv' = [inv EXCEPT ![i].pc = "finally", ![i].resp = Response(500, "MongoError")]
    /\ UNCHANGED <<configVars, now, rateMap, cachedClient, db, nextOid, proc, log,
                   adminResp, client, harnessVars>>

\* What the operation of handler h does to the collection.
operation(h, coll, req) ==
    CASE h = "updateComplaint" -> updateOne(coll, req.id, statusOfAction(req.action))
      [] h = "deleteComplaint" -> deleteOne(coll, req.id)
      [] OTHER -> coll

\* The handler's answer to an operation that returned.
answer(h, coll, req) ==
    IF h = "getComplaintById" /\ ~findOne(coll, req.complaintId)
    THEN Response(404, "Complaint not found")
    ELSE Response(200, "")

\* The operation the handler issued (updateOne, deleteOne, findOne, or
\* find().toArray()) runs on the handler's client and its await returns or
\* throws.  It runs only on a connected client (and then ok says whether
\* the server carried it out): on a client that has been closed since
\* client.connect() returned, the driver rejects it and the catch block
\* answers 500.
Query(i, ok) ==
    LET h == inv[i].handler
        coll == db["complaintsDB"]
    IN  /\ inv[i].pc = "query"
        /\ IF client[h] = "connected" /\ ok
           THEN /\ db' = [db EXCEPT !["complaintsDB"] = operation(h, coll, inv[i].req)]
                /\ inv' = [inv EXCEPT ![i].pc = "finally", ![i].ranOn = client[h],
                                      ![i].resp = answer(h, coll, inv[i].req)]
           ELSE /\ db' = db
                /\ inv' = [inv EXCEPT ![i].pc = "finally", ![i].ranOn = client[h],
                                      ![i].resp = Response(500, "MongoError")]
        /\ UNCHANGED <<configVars, now, rateMap, cachedClient, nextOid, proc, log,
                       adminResp, client, harnessVars>>

\* finally { await client.close() }: the handler's client is closed, whoever
\* else is using it, and the invocation's response is ready.
ClientClose(i) ==
    /\ inv[i].pc = "finally"
    /\ client' = [client EXCEPT ![inv[i].handler] = "closed"]
    /\ inv' = [inv EXCEPT ![i].pc = "done"]
    /\ UNCHANGED <<configVars, now, rateMap, cachedClient, db, nextOid, proc, log,
                   adminResp, harnessVars>>

\* The invocation is over: its response has been sent.
Respond(i) ==
    /\ inv[i].pc = "done"
    /\ inv' = [inv EXCEPT ![i] = NoInvocation]
    /\ UNCHANGED <<configVars, now, rateMap, cachedClient, db, nextOid, proc, log,
                   adminResp, client, harnessVars>>

---------------------------------------------------------------------------
(* The sanitizeString harness *)

Chars == {"a", SP, NUL}
SanitizeInputs ==
    {Undef, Num} \cup {Str(s) : s \in UNION {[1..n -> Chars] : n \in 0..MaxStrLen}}

InitSanitize ==
    /\ InitServer
    /\ sInput \in SanitizeInputs
    /\ sMaxLen \in 0..MaxLenArg
    /\ sStage = 0 /\ sOnce = <<>> /\ sTwice = <<>>

serverVars ==
    <<FUNCTION_SECRET, MONGODB_DB, now, rateMap, cachedClient, db, nextOid, proc,
      log, adminResp, client, inv>>

\* sanitizeString(input, maxLen)
SanitizeOnce ==
    /\ sStage = 0
    /\ sOnce' = sanitizeString(sInput, sMaxLen)
    /\ sStage' = 1
    /\ UNCHANGED <<serverVars, sInput, sMaxLen, sTwice>>

\* sanitizeString applied to its own result
SanitizeTwice ==
    /\ sStage = 1
    /\ sTwice' = sanitizeString(Str(sOnce), sMaxLen)
    /\ sStage' = 2
    /\ UNCHANGED <<serverVars, sInput, sMaxLen, sOnce>>

---------------------------------------------------------------------------
(* Specifications *)

\* Every handler, with concurrent submissions that arrive within one
\* millisecond.
Next ==
    \/ \E p \in Procs, event \in Events, r \in Uuids : Submit(p, event, r, MaxCalls)
    \/ \E p \in Procs : ConnectOk(p)
    \/ \E p \in Procs : ConnectFail(p)
    \/ \E p \in Procs : InsertOk(p)
    \/ \E p \in Procs : InsertFail(p)
    \/ \E p \in Procs : Return(p)
    \/ \E id \in UpdateIds, action \in Actions, ok \in BOOLEAN : UpdateAction(id, action, ok)
    \/ \E id \in UpdateIds, status \in Statuses, ok \in BOOLEAN : UpdateStatus(id, status, ok)
    \/ \E id \in UpdateIds, ok \in BOOLEAN : Delete(id, ok)

Spec == Init /\ [][Next]_vars

\* One submission from its arrival to its response, over many payloads.
NextSubmit ==
    \/ \E event \in SubmitEvents :
          Len(log) \in {0, RATE_LIMIT_MAX} /\ Submit(1, event, 0, RATE_LIMIT_MAX + 1)
    \/ ConnectOk(1)
    \/ ConnectFail(1)
    \/ InsertOk(1)
    \/ InsertFail(1)
    \/ Return(1)

\* The server as it starts, or after six requests from 10.0.0.1 in the
\* millisecond 0 that were all answered 400 "Invalid JSON".
InitSubmit ==
    /\ InitHarness
    /\ FUNCTION_SECRET \in Secrets
    /\ MONGODB_DB \in DbNames
    /\ now = 0
    /\ cachedClient = FALSE
    /\ db = [n \in DbNames |-> {}]
    /\ nextOid = 1
    /\ proc = [p \in Procs |-> Idle]
    /\ adminResp = NoResp
    /\ client = [h \in Handlers |-> "new"]
    /\ inv = [i \in Invocations |-> NoInvocation]
    /\ \E n \in {0, RATE_LIMIT_MAX} :
         /\ log = [i \in 1..n |-> [ip |-> "10.0.0.1", t |-> 0, limited |-> FALSE]]
         /\ rateMap = [ip \in Ips |->
                         IF n > 0 /\ ip = "10.0.0.1" THEN [count |-> n, first |-> 0]
                         ELSE NoEntry]

SpecSubmit == InitSubmit /\ [][NextSubmit]_vars

\* The limiter over time: one caller key, one request after the other.
NextRate ==
    \/ Tick
    \/ \E event \in RateEvents : Submit(1, event, 0, MaxRateCalls)
    \/ Return(1)

SpecRate == Init /\ [][NextRate]_vars

\* The limiter under a burst: concurrent requests of one caller key within a
\* millisecond, some of them suspended at their storage calls.
NextBurst ==
    \/ \E p \in Procs, event \in BurstEvents : Submit(p, event, 0, MaxRateCalls)
    \/ \E p \in Procs : ConnectOk(p)
    \/ \E p \in Procs : InsertOk(p)
    \/ \E p \in Procs : Return(p)

SpecBurst == Init /\ [][NextBurst]_vars

\* The handlers that share a client, with concurrent invocations, on a
\* database that holds one accepted complaint.
Requests(h) ==
    CASE h = "updateComplaint" ->
           {Request(FALSE, 0, "", <<>>)}
             \cup {Request(TRUE, id, a, <<>>) : id \in UpdateIds, a \in Actions}
      [] h = "deleteComplaint" ->
           {Request(FALSE, 0, "", <<>>)} \cup {Request(TRUE, id, "", <<>>) : id \in UpdateIds}
      [] h = "getComplaintById" ->
           {Request(FALSE, 0, "", <<>>)}
             \cup {Request(TRUE, 0, "", c) : c \in {<<>>, <<"x">>, createComplaintId(0, 0)}}
      [] OTHER -> {Request(TRUE, 0, "", <<>>)}

NextClient ==
    \/ \E i \in Invocations, h \in Handlers : \E req \in Requests(h) : Invoke(i, h, req)
    \/ \E i \in Invocations : ClientConnectOk(i)
    \/ \E i \in Invocations : ClientConnectFail(i)
    \/ \E i \in Invocations, ok \in BOOLEAN : Query(i, ok)
    \/ \E i \in Invocations : ClientClose(i)
    \/ \E i \in Invocations : Respond(i)

\* The server after one submission from 10.0.0.1 in the millisecond 0 that
\* was accepted and stored in complaintsDB.
InitClient ==
    /\ InitHarness
    /\ FUNCTION_SECRET = "s3cret"
    /\ MONGODB_DB = "complaintsDB"
    /\ now = 0
    /\ rateMap = [ip \in Ips |->
                    IF ip = "10.0.0.1" THEN [count |-> 1, first |-> 0] ELSE NoEntry]
    /\ cachedClient = TRUE
    /\ db = [n \in DbNames |->
               IF n = "complaintsDB"
               THEN {("_id" :> 1) @@ evaluate("s3cret", Post(Json(GoodPayload(Undef))), FALSE,
                                               createComplaintId(0, 0), 0).doc}
               ELSE {}]
    /\ nextOid = 2
    /\ proc = [p \in Procs |-> Idle]
    /\ log = <<[ip |-> "10.0.0.1", t |-> 0, limited |-> FALSE]>>
    /\ adminResp = NoResp
    /\ client = [h \in Handlers |-> "new"]
    /\ inv = [i \in Invocations |-> NoInvocation]

SpecClient == InitClient /\ [][NextClient]_vars

NextSanitize == SanitizeOnce \/ SanitizeTwice

SpecSanitize == InitSanitize /\ [][NextSanitize]_vars

---------------------------------------------------------------------------
(* Properties *)

Max(S) == CHOOSE x \in S : \A y \in S : y <= x

RECURSIVE WindowAt(_, _)
\* The window the i-th logged call falls in, and the call's number in it:
\* a key's first call opens a window; a call more than 60 seconds after the
\* start of the window of the key's previous call opens a new one.
WindowAt(lg, i) ==
    LET before == {j \in 1..(i - 1) : lg[j].ip = lg[i].ip}
    IN  IF before = {} THEN [start |-> lg[i].t, n |-> 1]
        ELSE LET w == WindowAt(lg, Max(before))
             IN  IF lg[i].t - w.start > 60000
                 THEN [start |-> lg[i].t, n |-> 1]
                 ELSE [start |-> w.start, n |-> w.n + 1]

CallsOf(ip) == {i \in 1..Len(log) : log[i].ip = ip}

\* C1: for each caller key, calls 1 to 6 within 60 seconds of the window's
\* first call pass the limiter, the 7th and later ones are limited and answered
\* 429, and the first call more than 60 seconds after the window's start passes
\* and leaves the counter at 1 and the window starting at that call.
C1_RateLimitWindow ==
    /\ \A i \in 1..Len(log) : log[i].limited = (WindowAt(log, i).n >= 7)
    /\ \A ip \in Ips :
         IF CallsOf(ip) = {} THEN rateMap[ip] = NoEntry
         ELSE LET w == WindowAt(log, Max(CallsOf(ip)))
              IN  rateMap[ip] = [count |-> w.n, first |-> w.start]
    /\ \A p \in Procs :
         /\ proc[p].limiter = "limited" => proc[p].resp.statusCode = 429
         /\ proc[p].limiter = "passed" => proc[p].resp.statusCode # 429

\* Seven calls in one window, the seventh limited, then a call after the
\* window that passes and restarts the count.
C1_Witness ==
    /\ Len(log) = 8
    /\ log[7].limited /\ log[7].t = 60000
    /\ ~log[8].limited /\ log[8].t = 60001
    /\ rateMap["10.0.0.1"] = [count |-> 1, first |-> 60001]

Stored == UNION {db[n] : n \in DbNames}

\* C2: a stored complaint's status changes only from pending to approved or
\* from pending to rejected.
C2_StatusTransitions ==
    [][\A n \in DbNames : \A d \in db[n] : \A e \in db'[n] :
          (d["_id"] = e["_id"] /\ d["status"] # e["status"])
              => (d["status"] = "pending" /\ e["status"] \in {"approved", "rejected"})]_vars

\* The fields of a request whose payload the handler sanitizes: it passed the
\* secret gate and the limiter, and its body parsed to a value that has
\* properties.
Sanitized(q) ==
    /\ q.limiter = "passed"
    /\ q.event.body.kind # "malformed"
    /\ parse(q.event.body) # Null

Field(q, name, maxLen) == sanitizeString(Get(parse(q.event.body), name), maxLen)

ReporterField(q, name, maxLen) ==
    sanitizeString(Get(Get(parse(q.event.body), "reporter"), name), maxLen)

BadReporterEmail(q) ==
    /\ Get(parse(q.event.body), "reporter").type = "object"
    /\ ReporterField(q, "email", 254) # <<>>
    /\ ~isEmail(ReporterField(q, "email", 254))

SomeFieldEmpty(q) ==
    \/ Field(q, "department", 100) = <<>>
    \/ Field(q, "program", 100) = <<>>
    \/ Field(q, "title", 200) = <<>>
    \/ Field(q, "details", 4000) = <<>>

Rejected(q) == q.resp.statusCode \in {400, 401, 405, 429}

\* Every validation step accepts the request.
PassesValidation(q) ==
    /\ q.event.httpMethod = "POST"
    /\ FUNCTION_SECRET = "" \/ providedSecret(q.event) = FUNCTION_SECRET
    /\ Sanitized(q)
    /\ ~BadReporterEmail(q)
    /\ ~SomeFieldEmpty(q)
    /\ Len(Field(q, "title", 200)) >= 5
    /\ Len(Field(q, "details", 4000)) >= 10

\* C3: a request answered 400, 401, 405 or 429 has made no storage call, the
\* storage calls are made only for a request every validation step accepted,
\* and the step that rejects a request leaves the stored collections and the
\* cached client as they were.
C3_NoStorageOnRejection ==
    /\ [](\A p \in Procs :
            /\ Rejected(proc[p]) => proc[p].storage = <<>>
            /\ (proc[p].pc \in {"connect", "insert"} \/ proc[p].storage # <<>>)
                  => PassesValidation(proc[p]))
    /\ [][\A p \in Procs :
            (proc[p].pc = "idle" /\ Rejected(proc'[p]))
                => (db' = db /\ nextOid' = nextOid /\ cachedClient' = cachedClient)]_vars

\* A request rejected by the limiter, with no storage call and nothing stored.
C3_Witness ==
    \E p \in Procs :
        /\ proc[p].pc = "done" /\ proc[p].resp.statusCode = 429
        /\ proc[p].storage = <<>> /\ Stored = {}

\* C4: a request that passed the gate and the limiter, whose body parsed and
\* whose reporter is an object with a non-empty sanitized email that is no
\* email address, is answered 400 "Invalid reporter email", whatever its
\* department, program, title and details are.
C4_InvalidEmailFirst ==
    \A p \in Procs :
        (Sanitized(proc[p]) /\ BadReporterEmail(proc[p]))
            => proc[p].resp = Response(400, "Invalid reporter email")

\* A request with a bad reporter email and a missing required field, answered
\* "Invalid reporter email".
C4_Witness ==
    \E p \in Procs :
        /\ Sanitized(proc[p]) /\ BadReporterEmail(proc[p]) /\ SomeFieldEmpty(proc[p])
        /\ proc[p].resp = Response(400, "Invalid reporter email")

C6_ReporterOnlyIfProvided ==
    \A d \in Stored :
        "reporter" \in DOMAIN d =>
            /\ DOMAIN d["reporter"] # {}
            /\ DOMAIN d["reporter"] \subseteq {"name", "email", "username"}

\* C7: sanitizeString applied to its own result returns that result.
C7_SanitizeIdempotent == sStage = 2 => sTwice = sOnce

\* C8: no two stored records have the same complaintId.
C8_UniqueComplaintIds ==
    \A d \in Stored : \A e \in Stored :
        d["complaintId"] = e["complaintId"] => d = e

\* The records the submit handler has accepted: built, or stored.
AcceptedDocs == Stored \cup {proc[p].doc : p \in {p \in Procs : proc[p].doc # NoDoc}}

WellFormed(d) ==
    /\ Len(d["department"]) \in 1..100
    /\ Len(d["program"]) \in 1..100
    /\ Len(d["title"]) \in 5..200
    /\ Len(d["details"]) \in 10..4000
    /\ d["status"] = "pending"
    /\ d["createdAt"] = d["updatedAt"]

TitleShort(q) == Len(Field(q, "title", 200)) < 5
DetailsShort(q) == Len(Field(q, "details", 4000)) < 10

\* C9 as stated: every accepted record is well-formed, and a submission whose
\* sanitized title has fewer than 5 characters or whose sanitized details has
\* fewer than 10 is not accepted and is answered 400 "too short", naming the
\* failing field.
C9_WellFormedOrTooShort ==
    /\ \A d \in AcceptedDocs : WellFormed(d)
    /\ \A p \in Procs :
         /\ (Sanitized(proc[p]) /\ TitleShort(proc[p]))
               => proc[p].resp = Response(400, "Complaint title too short")
         /\ (Sanitized(proc[p]) /\ ~TitleShort(proc[p]) /\ DetailsShort(proc[p]))
               => proc[p].resp = Response(400, "Complaint details too short")

\* C9 amended: every accepted record is well-formed; a submission whose
\* sanitized title has fewer than 5 characters or whose sanitized details has
\* fewer than 10 is not accepted and is answered 400; the answer is "too
\* short" when the reporter email is acceptable and the four required fields
\* are non-empty, naming the title if it is too short and the details
\* otherwise.
C9_WellFormedAndFloors ==
    /\ \A d \in AcceptedDocs : WellFormed(d)
    /\ \A p \in Procs :
         LET q == proc[p]
         IN  /\ (Sanitized(q) /\ (TitleShort(q) \/ DetailsShort(q)))
                   => (q.doc = NoDoc /\ q.storage = <<>> /\ q.resp.statusCode = 400)
             /\ (Sanitized(q) /\ ~BadReporterEmail(q) /\ ~SomeFieldEmpty(q) /\ TitleShort(q))
                   => q.resp = Response(400, "Complaint title too short")
             /\ (Sanitized(q) /\ ~BadReporterEmail(q) /\ ~SomeFieldEmpty(q)
                    /\ ~TitleShort(q) /\ DetailsShort(q))
                   => q.resp = Response(400, "Complaint details too short")

\* A stored record whose department, title and details were cut to their
\* maximum lengths.
C9_Witness ==
    \E d \in Stored :
        /\ Len(d["department"]) = 100 /\ Len(d["title"]) = 200 /\ Len(d["details"]) = 4000
        /\ \E p \in Procs :
             /\ proc[p].resp.statusCode = 201
             /\ Get(parse(proc[p].event.body), "title") = Str(Rep("a", 201))

\* The logged calls of the window a key's entry stands for.
InWindow(ip) ==
    {i \in CallsOf(ip) : WindowAt(log, i).start = rateMap[ip].first}

\* C10: with requests of one caller key running concurrently, some suspended
\* at their storage calls, every call of the limiter is counted (the key's
\* counter is the number of calls in its window: no increment is lost) and at
\* most 6 of the calls of a window pass.
C10_AtomicCount ==
    \A ip \in Ips :
        /\ rateMap[ip] # NoEntry => rateMap[ip].count = Cardinality(InWindow(ip))
        /\ Cardinality({i \in InWindow(ip) : ~log[i].limited}) <= 6
        /\ \A p \in Procs :
             (proc[p].limiter # "skipped" /\ callerIp(proc[p].event) = ip)
                 => rateMap[ip].count >= 1

\* A request suspended at a storage call while another of the same key is
\* answered 429, six calls of the window having passed.
C10_Witness ==
    \E p \in Procs : \E q \in Procs :
        /\ proc[p].pc \in {"connect", "insert"}
        /\ proc[q].pc = "done" /\ proc[q].resp.statusCode = 429
        /\ callerIp(proc[p].event) = callerIp(proc[q].event)
        /\ Cardinality({i \in InWindow("10.0.0.1") : ~log[i].limited}) = 6

\* C11: in the update, delete, get-by-id and list handlers no invocation's
\* database operation runs on a client that a concurrent invocation of the
\* same handler has closed: each one's operation runs while the handler's
\* client is connected.
C11_QueryOnConnectedClient ==
    \A i \in Invocations : inv[i].ranOn \in {"none", "connected"}

====
